---- MODULE Spec2Model ----
(***************************************************************************)
(* Model of art::OptimizingCompiler (compiler/optimizing/                  *)
(* optimizing_compiler.cc): one shared compiler instance, several worker   *)
(* threads calling Compile, the three statistics counters, the path        *)
(* decision and the two artifact layouts.                                  *)
(*                                                                         *)
(* A Compile call is split where it touches the shared counters; the       *)
(* stages that only touch the per-call graph are grouped as the source     *)
(* groups them, and every stage executed is appended to the per-call       *)
(* trace in execution order.  LOG(FATAL) and a failed CHECK abort the      *)
(* process: no action is enabled afterwards.                               *)
(***************************************************************************)
EXTENDS Integers, Sequences, FiniteSets, TLC

\* ------------------------------------------------------------------ bounds
MaxCalls == 2       \* Compile calls started over the life of the instance
MaxTries == 1       \* largest tries_size_ of a code item

Workers == {"w1", "w2"}

\* ------------------------------------------------------- program constants
InstructionSet == {"kArm", "kArm64", "kThumb2", "kX86", "kX86_64", "kMips"}

\* HOptimization* optimizations[] = { &opt1, ..., &opt7 }
Optimizations ==
  << "HDeadCodeElimination", "HConstantFolding", "SsaRedundantPhiElimination",
     "SsaDeadPhiElimination", "InstructionSimplifier", "GlobalValueNumberer",
     "InstructionSimplifier" >>

CodeItems == [tries_size_ : 0..MaxTries]

\* GetSymbol() of the method: only the two testing markers are consulted.
Symbols == [opt : BOOLEAN, reg : BOOLEAN]

NoMethod == [code_item |-> [tries_size_ |-> 0], symbol |-> [opt |-> FALSE, reg |-> FALSE]]

VARIABLES
  \* ---- the compiler instance (shared)
  run_optimizations_,             \* const bool, set by the constructor
  total_compiled_methods_,        \* AtomicInteger
  unoptimized_compiled_methods_,  \* AtomicInteger
  optimized_compiled_methods_,    \* AtomicInteger
  \* ---- the driver and the build
  driver_instruction_set,         \* GetCompilerDriver()->GetInstructionSet()
  include_debug_symbols,          \* GetCompilerOptions().GetIncludeDebugSymbols()
  kArm32QuickCodeUseSoftFloat,    \* build-time constant
  kIsVisualizerEnabled,           \* static bool
  kStringFilter,                  \* static const char*
  visualizer_output_,             \* "null", or the state of the stream: "open", "failed"
  \* ---- the process
  aborted,                        \* "none" or the message of the fatal abort
  \* ---- one Compile call per worker
  pc,                             \* position of the worker in Compile
  method,                         \* code_item and symbol of the method compiled
  instruction_set,                \* the local instruction_set
  isa_uses,                       \* << callee, instruction set passed to it >>
  graph,                          \* "none", "null" or "built"
  codegen,                        \* "none", "null" or "created"
  canAllocate,                    \* result of CanAllocateRegistersFor
  predTrace,                      \* stages already run when it was evaluated
  supportsRA,                     \* result of RegisterAllocator::Supports
  path,                           \* "none", "optimized", "baseline", "fatal"
  trace,                          \* stages run on the graph, in order
  result,                         \* NoResult, Nullptr or a CompiledMethod
  visualizer,                     \* "none", or is_enabled_ of the call's HGraphVisualizer
  dumps,                          \* pass names the call has written to the stream
  \* ---- history
  returned_artifacts,             \* calls that returned a CompiledMethod
  returned_optimized,             \* calls that returned an optimized-layout one
  performed,                      \* increments performed on each counter, by all calls
  call_incs,                      \* increments performed by the current call of a worker
  \* ---- shutdown
  report                          \* what the destructor logged

shared == << run_optimizations_, driver_instruction_set, include_debug_symbols,
             kArm32QuickCodeUseSoftFloat, kIsVisualizerEnabled, kStringFilter,
             visualizer_output_ >>
counters == << total_compiled_methods_, unoptimized_compiled_methods_,
               optimized_compiled_methods_ >>
locals == << method, instruction_set, isa_uses, graph, codegen, canAllocate, predTrace,
             supportsRA, path, trace, result, visualizer, dumps >>
history == << returned_artifacts, returned_optimized, performed, call_incs >>
vars == << shared, counters, aborted, pc, locals, history, report >>

\* ------------------------------------------------------------ pure helpers

\* Compile written without the upgrade of kArm
SelectInstructionSet_NoUpgrade(isa) == isa

\* if (instruction_set == kArm) instruction_set = kThumb2;
SelectInstructionSet(isa) == IF isa = "kArm" THEN "kThumb2" ELSE isa

IsInstructionSetSupported(isa) ==
  \/ isa = "kArm64"
  \/ (isa = "kThumb2" /\ ~kArm32QuickCodeUseSoftFloat)
  \/ isa = "kX86"
  \/ isa = "kX86_64"

CanOptimize(code_item) == code_item.tries_size_ = 0

\* dex_compilation_unit.GetSymbol().find("00024opt_00024") != npos
ShouldCompile(symbol) == symbol.opt

\* dex_compilation_unit.GetSymbol().find("00024reg_00024") != npos
ShouldOptimize(symbol) == symbol.reg

\* the CHECK written without its negation
CheckNotShouldCompile_Inverted(shouldCompile) == IF shouldCompile THEN "nullptr" ELSE "fatal"

\* CHECK(!shouldCompile) << ...; return nullptr;
CheckNotShouldCompile(shouldCompile) == IF shouldCompile THEN "fatal" ELSE "nullptr"

\* && short-circuits: the predicate is called only after the first two hold
EvaluatesCanAllocate(code_item) == run_optimizations_ /\ CanOptimize(code_item)

\* the if written without the try/catch restriction
TakesOptimizedPath_IgnoresTries(code_item, canAlloc) ==
  run_optimizations_ /\ canAlloc

\* the if written without the call of CanAllocateRegistersFor
TakesOptimizedPath_NoPredicate(code_item, canAlloc) ==
  run_optimizations_ /\ CanOptimize(code_item)

\* the optimized path taken only when nothing is to be dumped
TakesOptimizedPath_OnlyWithoutVisualizer(code_item, canAlloc) ==
  run_optimizations_ /\ CanOptimize(code_item) /\ canAlloc /\ visualizer_output_ /= "open"

\* the condition of the if at the path decision
TakesOptimizedPath(code_item, canAlloc) ==
  run_optimizations_ /\ CanOptimize(code_item) /\ canAlloc

\* the condition of the else-if at the path decision
TakesFatalPath(shouldOptimize, supports) == shouldOptimize /\ supports

PathDecision(code_item, canAlloc, shouldOptimize, supports) ==
  IF TakesOptimizedPath(code_item, canAlloc) THEN "optimized"
  ELSE IF TakesFatalPath(shouldOptimize, supports) THEN "fatal"
  ELSE "baseline"


\* ----------------------------------------------------- stages and artifacts
\* A stage is << object, method >>; the trace of a call lists them in order.

\* the SSA transformation called before the dominator tree is built
SsaStages_SsaFirst ==
  << <<"graph", "TransformToSSA">>, <<"graph", "BuildDominatorTree">>,
     <<"graph", "FindNaturalLoops">> >>

\* graph->BuildDominatorTree(); graph->TransformToSSA(); graph->FindNaturalLoops();
SsaStages ==
  << <<"graph", "BuildDominatorTree">>, <<"graph", "TransformToSSA">>,
     <<"graph", "FindNaturalLoops">> >>

\* The loop of RunOptimizations: Run then Check of each pass in turn.  failAt
\* is the index of the pass whose Check fails, 0 when every Check passes; the
\* loop stops at a failing Check.
RECURSIVE RunOptimizationsFrom(_, _)
RunOptimizationsFrom(i, failAt) ==
  IF i > Len(Optimizations) THEN << >>
  ELSE << <<Optimizations[i], "Run">>, <<Optimizations[i], "Check">> >>
       \o (IF i = failAt THEN << >> ELSE RunOptimizationsFrom(i + 1, failAt))

\* the sequence run a second time, as an iteration to a fixed point would
RunOptimizations_Twice(failAt) ==
  RunOptimizationsFrom(1, failAt) \o
  (IF failAt = 0 THEN RunOptimizationsFrom(1, 0) ELSE << >>)

RunOptimizations(failAt) == RunOptimizationsFrom(1, failAt)

\* HOptimization::Check: a failed self-check is fatal.
HOptimizationCheck(failAt) == IF failAt = 0 THEN "ok" ELSE "fatal"

\* PrepareForRegisterAllocation(graph).Run(); liveness.Analyze();
\* register_allocator.AllocateRegisters();
AllocationStages ==
  << <<"PrepareForRegisterAllocation", "Run">>, <<"SsaLivenessAnalysis", "Analyze">>,
     <<"RegisterAllocator", "AllocateRegisters">> >>

\* RegisterAllocator::AllocateRegisters: a failed allocation is fatal.
AllocateRegistersOutcome(ok) == IF ok THEN "ok" ELSE "fatal"

\* the optimized branch written without the call of BuildStackMaps
OptimizedEmitStages_NoStackMaps ==
  << <<"codegen", "CompileOptimized">>, <<"codegen", "BuildMappingTable">> >>

\* the optimized branch calling BuildMappingTable only for debug symbols
OptimizedEmitStages_MappingForDebugOnly ==
  IF include_debug_symbols
    THEN << <<"codegen", "CompileOptimized">>, <<"codegen", "BuildMappingTable">>,
            <<"codegen", "BuildStackMaps">> >>
    ELSE << <<"codegen", "CompileOptimized">>, <<"codegen", "BuildStackMaps">> >>

\* codegen->CompileOptimized(); BuildMappingTable(); BuildStackMaps();
OptimizedEmitStages ==
  << <<"codegen", "CompileOptimized">>, <<"codegen", "BuildMappingTable">>,
     <<"codegen", "BuildStackMaps">> >>

\* codegen->CompileBaseline(&allocator);
BaselineEmitStages == << <<"codegen", "CompileBaseline">> >>

\* the coverage phases rebuilding the dominator tree after the phi eliminations
CoverageStages_DominatorAgain ==
  SsaStages \o
  << <<"SsaRedundantPhiElimination", "Run">>, <<"SsaDeadPhiElimination", "Run">>,
     <<"graph", "BuildDominatorTree">>,
     <<"GlobalValueNumberer", "Run">>, <<"SsaLivenessAnalysis", "Analyze">> >>

\* "Run these phases to get some test coverage."
CoverageStages ==
  SsaStages \o
  << <<"SsaRedundantPhiElimination", "Run">>, <<"SsaDeadPhiElimination", "Run">>,
     <<"GlobalValueNumberer", "Run">>, <<"SsaLivenessAnalysis", "Analyze">> >>

\* the coverage phases run before CompileBaseline
BaselineStages_CoverageFirst(code_item) ==
  (IF CanOptimize(code_item) THEN CoverageStages ELSE << >>) \o BaselineEmitStages

BaselineStages(code_item) ==
  BaselineEmitStages \o (IF CanOptimize(code_item) THEN CoverageStages ELSE << >>)

\* BuildMappingTable(); BuildVMapTable(); BuildNativeGCMap();
BaselineTableStages ==
  << <<"codegen", "BuildMappingTable">>, <<"codegen", "BuildVMapTable">>,
     <<"codegen", "BuildNativeGCMap">> >>

Ran(tr, stage) == \E i \in 1..Len(tr) : tr[i] = stage

\* The vector a codegen call fills: built once the call has run.
Built(tr, call) == IF Ran(tr, <<"codegen", call>>) THEN "built" ELSE "absent"

\* GetIncludeDebugSymbols() ? &src_mapping_table : nullptr
SrcMappingTable(tr) ==
  IF Ran(tr, <<"codegen", "BuildMappingTable">>) /\ include_debug_symbols
    THEN "built" ELSE "empty"

\* A stage that is not a call of the code generator works on the graph.
OnGraph(stage) == stage[1] /= "codegen"

\* The transformations and analyses applied to the graph by the stages of tr.
GraphState(tr) == SelectSeq(tr, OnGraph)

IsEmission(stage) == stage \in {<<"codegen", "CompileBaseline">>, <<"codegen", "CompileOptimized">>}

\* The state of the graph the code bytes were emitted from: what had been
\* applied to it when CompileBaseline or CompileOptimized was called.
EmittedFrom(tr) ==
  IF \E i \in 1..Len(tr) : IsEmission(tr[i])
    THEN LET first == CHOOSE i \in 1..Len(tr) :
                        IsEmission(tr[i]) /\ \A j \in 1..(i - 1) : ~IsEmission(tr[j])
         IN GraphState(SubSeq(tr, 1, first - 1))
    ELSE << >>

\* CodeEmitter contract: buildMappingTable, buildVMapTable and
\* buildNativeGCMap take no graph; they work from what the emitter recorded
\* while it emitted the code.
TableBuiltFrom(tr) == EmittedFrom(tr)

\* What each field of a baseline artifact is derived from.
BaselineContents(tr) ==
  [ code |-> EmittedFrom(tr), mapping_table |-> TableBuiltFrom(tr),
    vmap_table |-> TableBuiltFrom(tr), gc_map |-> TableBuiltFrom(tr) ]

\* no value returned (yet)
NoResult ==
  [ layout |-> "none", instruction_set |-> "kNone", code |-> "absent",
    src_mapping_table |-> "absent", mapping_table |-> "absent",
    stack_map |-> "absent", vmap_table |-> "absent", gc_map |-> "absent" ]

\* return nullptr;
Nullptr == [NoResult EXCEPT !.layout = "nullptr"]

\* the CompiledMethod constructor called on the optimized path
CompiledMethodOptimized(isa, code, mapping_table, stack_map) ==
  [ layout |-> "optimized", instruction_set |-> isa, code |-> code,
    src_mapping_table |-> "absent", mapping_table |-> mapping_table,
    stack_map |-> stack_map, vmap_table |-> "absent", gc_map |-> "absent" ]

\* the CompiledMethod constructor called on the baseline path
CompiledMethodBaseline(isa, code, src_mapping_table, mapping_table, vmap_table, gc_map) ==
  [ layout |-> "baseline", instruction_set |-> isa, code |-> code,
    src_mapping_table |-> src_mapping_table, mapping_table |-> mapping_table,
    stack_map |-> "absent", vmap_table |-> vmap_table, gc_map |-> gc_map ]

\* the optimized branch ending in return nullptr
OptimizedArtifact_Sentinel(isa, tr) == Nullptr

\* the optimized branch calling the constructor of the baseline layout
OptimizedArtifact_BaselineLayout(isa, tr) ==
  CompiledMethodBaseline(isa, Built(tr, "CompileOptimized"), SrcMappingTable(tr),
                         Built(tr, "BuildMappingTable"), Built(tr, "BuildStackMaps"),
                         Built(tr, "BuildStackMaps"))

\* return new CompiledMethod(..., allocator.GetMemory(), ..., mapping_table, stack_map);
OptimizedArtifact(isa, tr) ==
  CompiledMethodOptimized(isa, Built(tr, "CompileOptimized"),
                          Built(tr, "BuildMappingTable"), Built(tr, "BuildStackMaps"))

\* return new CompiledMethod(..., &src_mapping_table, mapping_table, vmap_table, gc_map, nullptr);
BaselineArtifact(isa, tr) ==
  CompiledMethodBaseline(isa, Built(tr, "CompileBaseline"), SrcMappingTable(tr),
                         Built(tr, "BuildMappingTable"), Built(tr, "BuildVMapTable"),
                         Built(tr, "BuildNativeGCMap"))

\* no increment performed
NoIncrements == [total |-> 0, unoptimized |-> 0, optimized |-> 0]

\* the increment written as a plain read and write: behind another update,
\* it writes back the value it read
AtomicIncrement_Lost(c) == IF c = 0 THEN c + 1 ELSE c

\* AtomicInteger::operator++ : one indivisible read-modify-write
AtomicIncrement(c) == c + 1

\* 1 when the value returned is an optimized-layout CompiledMethod
ReturnsOptimized(r) == IF r.layout = "optimized" THEN 1 ELSE 0

\* the destructor has not run
NoReport ==
  [ kind |-> "none", unoptimized_percent |-> 0, optimized_percent |-> 0,
    division_by_zero |-> FALSE ]

\* the destructor written without the test of total_compiled_methods_ == 0
Report_Unguarded(total, unoptimized, optimized) ==
  [ kind |-> "compiled",
    unoptimized_percent |-> IF total = 0 THEN 0 ELSE (unoptimized * 100) \div total,
    optimized_percent |-> IF total = 0 THEN 0 ELSE (optimized * 100) \div total,
    division_by_zero |-> total = 0 ]

\* The body of the destructor: "Did not compile any method." when the total
\* is zero, the two percentages otherwise.  division_by_zero tells whether a
\* division by a zero total was executed.
Report(total, unoptimized, optimized) ==
  IF total = 0
    THEN [NoReport EXCEPT !.kind = "did_not_compile"]
    ELSE [ kind |-> "compiled",
           unoptimized_percent |-> (unoptimized * 100) \div total,
           optimized_percent |-> (optimized * 100) \div total,
           division_by_zero |-> FALSE ]

\* ------------------------------------------------------------- visualizer

\* The two markers stand for the symbol; the empty filter is in every symbol.
SymbolContains(symbol, filter) ==
  \/ filter = ""
  \/ filter = "00024opt_00024" /\ symbol.opt
  \/ filter = "00024reg_00024" /\ symbol.reg

\* if (kIsVisualizerEnabled) visualizer_output_.reset(new std::ofstream("art.cfg"));
\* the stream may fail to open
VisualizerOutputs(enabled) == IF enabled THEN {"open", "failed"} ELSE {"null"}

\* HGraphVisualizer::HGraphVisualizer: enabled when there is an output and
\* the symbol of the method contains the filter.
VisualizerIsEnabled(output, symbol, filter) ==
  IF output /= "null" /\ SymbolContains(symbol, filter) THEN "enabled" ELSE "disabled"

\* HGraphVisualizer::DumpGraph: what is in the stream after the passes named
\* are dumped; a disabled visualizer and a failed stream write nothing.
DumpGraph(is_enabled, written, pass_names) ==
  IF is_enabled = "enabled" /\ visualizer_output_ = "open"
    THEN written \o pass_names ELSE written

\* visualizer.DumpGraph(optimization->GetPassName()) follows the Check of
\* each pass that passed its Check.
PassesDumped(failAt) ==
  SubSeq(Optimizations, 1, IF failAt = 0 THEN Len(Optimizations) ELSE failAt - 1)

\* ------------------------------------------------------------------- Init

\* The instance after construction, whatever the visualizer settings.
InitInstance ==
  /\ run_optimizations_ \in BOOLEAN
  /\ total_compiled_methods_ = 0
  /\ unoptimized_compiled_methods_ = 0
  /\ optimized_compiled_methods_ = 0
  /\ driver_instruction_set \in InstructionSet
  /\ include_debug_symbols \in BOOLEAN
  /\ kArm32QuickCodeUseSoftFloat \in BOOLEAN
  /\ aborted = "none"
  /\ pc = [w \in Workers |-> "Idle"]
  /\ method = [w \in Workers |-> NoMethod]
  /\ instruction_set = [w \in Workers |-> "kNone"]
  /\ isa_uses = [w \in Workers |-> {}]
  /\ graph = [w \in Workers |-> "none"]
  /\ codegen = [w \in Workers |-> "none"]
  /\ canAllocate = [w \in Workers |-> "unevaluated"]
  /\ predTrace = [w \in Workers |-> << >>]
  /\ supportsRA = [w \in Workers |-> "unevaluated"]
  /\ path = [w \in Workers |-> "none"]
  /\ trace = [w \in Workers |-> << >>]
  /\ result = [w \in Workers |-> NoResult]
  /\ returned_artifacts = 0
  /\ returned_optimized = 0
  /\ performed = NoIncrements
  /\ call_incs = [w \in Workers |-> NoIncrements]
  /\ report = NoReport
  /\ visualizer = [w \in Workers |-> "none"]
  /\ dumps = [w \in Workers |-> << >>]
  /\ visualizer_output_ \in VisualizerOutputs(kIsVisualizerEnabled)

\* The program as written: kIsVisualizerEnabled = false, kStringFilter = "".
Init ==
  /\ kIsVisualizerEnabled = FALSE
  /\ kStringFilter = ""
  /\ InitInstance

\* Builds in which the two statics are edited, as << kIsVisualizerEnabled,
\* kStringFilter, state of the stream >>: visualizer off; visualizer on with a
\* filter that keeps the methods carrying the "reg" marker and drops the
\* others; visualizer on with a stream that failed to open.
VisualizerBuilds ==
  { <<FALSE, "", "null">>, <<TRUE, "00024reg_00024", "open">>, <<TRUE, "", "failed">> }

InitVisualizer ==
  /\ kIsVisualizerEnabled \in BOOLEAN
  /\ kStringFilter \in {"", "00024reg_00024"}
  /\ InitInstance
  /\ <<kIsVisualizerEnabled, kStringFilter, visualizer_output_>> \in VisualizerBuilds

\* ---------------------------------------------------------------- actions

\* The process has not aborted and the instance has not been destroyed.
Running == aborted = "none" /\ report = NoReport

\* Compile is entered: total_compiled_methods_++ and the instruction set is
\* read from the driver and upgraded.
Enter(w) ==
  /\ Running
  /\ pc[w] \in {"Idle", "Returned"}
  /\ performed.total < MaxCalls
  /\ \E ci \in CodeItems, sym \in Symbols :
       method' = [method EXCEPT ![w] = [code_item |-> ci, symbol |-> sym]]
  /\ total_compiled_methods_' = AtomicIncrement(total_compiled_methods_)
  /\ performed' = [performed EXCEPT !.total = @ + 1]
  /\ call_incs' = [call_incs EXCEPT ![w] = [NoIncrements EXCEPT !.total = 1]]
  /\ instruction_set' = [instruction_set EXCEPT ![w] = SelectInstructionSet(driver_instruction_set)]
  /\ isa_uses' = [isa_uses EXCEPT ![w] = {}]
  /\ graph' = [graph EXCEPT ![w] = "none"]
  /\ codegen' = [codegen EXCEPT ![w] = "none"]
  /\ canAllocate' = [canAllocate EXCEPT ![w] = "unevaluated"]
  /\ predTrace' = [predTrace EXCEPT ![w] = << >>]
  /\ supportsRA' = [supportsRA EXCEPT ![w] = "unevaluated"]
  /\ path' = [path EXCEPT ![w] = "none"]
  /\ trace' = [trace EXCEPT ![w] = << >>]
  /\ result' = [result EXCEPT ![w] = NoResult]
  /\ visualizer' = [visualizer EXCEPT ![w] = "none"]
  /\ dumps' = [dumps EXCEPT ![w] = << >>]
  /\ pc' = [pc EXCEPT ![w] = "CheckIsa"]
  /\ UNCHANGED << shared, unoptimized_compiled_methods_, optimized_compiled_methods_,
                  aborted, returned_artifacts, returned_optimized, report >>

ReturnNull(w) ==
  /\ result' = [result EXCEPT ![w] = Nullptr]
  /\ pc' = [pc EXCEPT ![w] = "Returned"]

\* if (!IsInstructionSetSupported(instruction_set)) return nullptr;
CheckIsa(w) ==
  /\ Running
  /\ pc[w] = "CheckIsa"
  /\ IF IsInstructionSetSupported(instruction_set[w])
       THEN /\ pc' = [pc EXCEPT ![w] = "CheckPathological"]
            /\ UNCHANGED result
       ELSE ReturnNull(w)
  /\ UNCHANGED << visualizer, dumps >>
  /\ UNCHANGED << shared, counters, aborted, method, instruction_set, isa_uses, graph, codegen,
                  canAllocate, predTrace, supportsRA, path, trace, returned_artifacts, returned_optimized, performed, call_incs, report >>

\* if (Compiler::IsPathologicalCase(...)) return nullptr;
CheckPathological(w) ==
  /\ Running
  /\ pc[w] = "CheckPathological"
  /\ \E pathological \in BOOLEAN :
       IF pathological
         THEN ReturnNull(w)
         ELSE /\ pc' = [pc EXCEPT ![w] = "BuildGraph"]
              /\ UNCHANGED result
  /\ UNCHANGED << visualizer, dumps >>
  /\ UNCHANGED << shared, counters, aborted, method, instruction_set, isa_uses, graph, codegen,
                  canAllocate, predTrace, supportsRA, path, trace, returned_artifacts, returned_optimized, performed, call_incs, report >>

\* HGraph* graph = builder.BuildGraph(*code_item); if (graph == nullptr) ...
BuildGraph(w) ==
  /\ Running
  /\ pc[w] = "BuildGraph"
  /\ \E built \in BOOLEAN :
       IF built
         THEN /\ graph' = [graph EXCEPT ![w] = "built"]
              /\ pc' = [pc EXCEPT ![w] = "CreateCodegen"]
              /\ UNCHANGED << result, aborted >>
         ELSE /\ graph' = [graph EXCEPT ![w] = "null"]
              /\ IF CheckNotShouldCompile(ShouldCompile(method[w].symbol)) = "fatal"
                   THEN /\ aborted' = "Could not build graph in optimizing compiler"
                        /\ pc' = [pc EXCEPT ![w] = "Aborted"]
                        /\ UNCHANGED result
                   ELSE /\ ReturnNull(w)
                        /\ UNCHANGED aborted
  /\ UNCHANGED << visualizer, dumps >>
  /\ UNCHANGED << shared, counters, method, instruction_set, isa_uses, codegen,
                  canAllocate, predTrace, supportsRA, path, trace, returned_artifacts, returned_optimized, performed, call_incs, report >>

\* CodeGenerator* codegen = CodeGenerator::Create(...); if (codegen == nullptr) ...
CreateCodegen(w) ==
  /\ Running
  /\ pc[w] = "CreateCodegen"
  /\ \E created \in BOOLEAN :
       IF created
         THEN /\ codegen' = [codegen EXCEPT ![w] = "created"]
              /\ LET is_enabled == VisualizerIsEnabled(visualizer_output_, method[w].symbol,
                                                       kStringFilter)
                 IN /\ visualizer' = [visualizer EXCEPT ![w] = is_enabled]
                    /\ dumps' = [dumps EXCEPT ![w] = DumpGraph(is_enabled, @, <<"builder">>)]
              /\ pc' = [pc EXCEPT ![w] = "ChoosePath"]
              /\ UNCHANGED << result, aborted >>
         ELSE /\ codegen' = [codegen EXCEPT ![w] = "null"]
              /\ UNCHANGED << visualizer, dumps >>
              /\ IF CheckNotShouldCompile(ShouldCompile(method[w].symbol)) = "fatal"
                   THEN /\ aborted' = "Could not find code generator for optimizing compiler"
                        /\ pc' = [pc EXCEPT ![w] = "Aborted"]
                        /\ UNCHANGED result
                   ELSE /\ ReturnNull(w)
                        /\ UNCHANGED aborted
  /\ isa_uses' = [isa_uses EXCEPT ![w] = @ \cup {<<"CodeGenerator::Create", instruction_set[w]>>}]
  /\ UNCHANGED << shared, counters, method, instruction_set, graph,
                  canAllocate, predTrace, supportsRA, path, trace, returned_artifacts, returned_optimized, performed, call_incs, report >>

Tri(b) == IF b THEN "true" ELSE "false"

\* The if / else-if / else at the path decision, with the counter increment
\* that opens the branch taken.
ChoosePath(w) ==
  /\ Running
  /\ pc[w] = "ChoosePath"
  /\ \E canAlloc \in BOOLEAN, supports \in BOOLEAN :
       LET ci == method[w].code_item
           shouldOptimize == ShouldOptimize(method[w].symbol)
           decision == PathDecision(ci, canAlloc, shouldOptimize, supports)
       IN /\ canAllocate' = [canAllocate EXCEPT ![w] =
                               IF EvaluatesCanAllocate(ci) THEN Tri(canAlloc) ELSE "unevaluated"]
          /\ predTrace' = [predTrace EXCEPT ![w] = trace[w]]
          /\ supportsRA' = [supportsRA EXCEPT ![w] =
                              IF ~TakesOptimizedPath(ci, canAlloc) /\ shouldOptimize
                                THEN Tri(supports) ELSE "unevaluated"]
          /\ isa_uses' = [isa_uses EXCEPT ![w] =
                            @ \cup (IF EvaluatesCanAllocate(ci)
                                      THEN {<<"RegisterAllocator::CanAllocateRegistersFor", instruction_set[w]>>}
                                      ELSE {})
                              \cup (IF ~TakesOptimizedPath(ci, canAlloc) /\ shouldOptimize
                                      THEN {<<"RegisterAllocator::Supports", instruction_set[w]>>}
                                      ELSE {})]
          /\ path' = [path EXCEPT ![w] = decision]
          /\ CASE decision = "optimized" ->
                    /\ optimized_compiled_methods_' = AtomicIncrement(optimized_compiled_methods_)
                    /\ performed' = [performed EXCEPT !.optimized = @ + 1]
                    /\ call_incs' = [call_incs EXCEPT ![w].optimized = @ + 1]
                    /\ pc' = [pc EXCEPT ![w] = "OptSsa"]
                    /\ UNCHANGED << unoptimized_compiled_methods_, aborted >>
               [] decision = "fatal" ->
                    /\ aborted' = "Could not allocate registers in optimizing compiler"
                    /\ pc' = [pc EXCEPT ![w] = "Aborted"]
                    /\ UNCHANGED << unoptimized_compiled_methods_, optimized_compiled_methods_,
                                    performed, call_incs >>
               [] decision = "baseline" ->
                    /\ unoptimized_compiled_methods_' = AtomicIncrement(unoptimized_compiled_methods_)
                    /\ performed' = [performed EXCEPT !.unoptimized = @ + 1]
                    /\ call_incs' = [call_incs EXCEPT ![w].unoptimized = @ + 1]
                    /\ pc' = [pc EXCEPT ![w] = "BaselineEmit"]
                    /\ UNCHANGED << optimized_compiled_methods_, aborted >>
  /\ UNCHANGED << visualizer, dumps >>
  /\ UNCHANGED << shared, total_compiled_methods_, method, instruction_set, graph, codegen,
                  trace, result, returned_artifacts, returned_optimized, report >>

\* graph->BuildDominatorTree(); graph->TransformToSSA(); graph->FindNaturalLoops();
OptSsa(w) ==
  /\ Running
  /\ pc[w] = "OptSsa"
  /\ trace' = [trace EXCEPT ![w] = @ \o SsaStages]
  /\ dumps' = [dumps EXCEPT ![w] = DumpGraph(visualizer[w], @, <<"ssa">>)]
  /\ pc' = [pc EXCEPT ![w] = "OptRunOptimizations"]
  /\ UNCHANGED visualizer
  /\ UNCHANGED << shared, counters, aborted, method, instruction_set, isa_uses, graph, codegen,
                  canAllocate, predTrace, supportsRA, path, result, returned_artifacts, returned_optimized, performed, call_incs, report >>

\* RunOptimizations(graph, visualizer);
OptRunOptimizations(w) ==
  /\ Running
  /\ pc[w] = "OptRunOptimizations"
  /\ \E failAt \in 0..Len(Optimizations) :
       /\ trace' = [trace EXCEPT ![w] = @ \o RunOptimizations(failAt)]
       /\ dumps' = [dumps EXCEPT ![w] = DumpGraph(visualizer[w], @, PassesDumped(failAt))]
       /\ IF HOptimizationCheck(failAt) = "fatal"
            THEN /\ aborted' = "Check failed"
                 /\ pc' = [pc EXCEPT ![w] = "Aborted"]
            ELSE /\ pc' = [pc EXCEPT ![w] = "OptAllocate"]
                 /\ UNCHANGED aborted
  /\ UNCHANGED visualizer
  /\ UNCHANGED << shared, counters, method, instruction_set, isa_uses, graph, codegen,
                  canAllocate, predTrace, supportsRA, path, result, returned_artifacts, returned_optimized, performed, call_incs, report >>

\* PrepareForRegisterAllocation, liveness analysis, AllocateRegisters
OptAllocate(w) ==
  /\ Running
  /\ pc[w] = "OptAllocate"
  /\ trace' = [trace EXCEPT ![w] = @ \o AllocationStages]
  /\ dumps' = [dumps EXCEPT ![w] = DumpGraph(visualizer[w], @, <<"liveness">>)]
  /\ \E ok \in BOOLEAN :
       IF AllocateRegistersOutcome(ok) = "fatal"
         THEN /\ aborted' = "AllocateRegisters failed"
              /\ pc' = [pc EXCEPT ![w] = "Aborted"]
         ELSE /\ pc' = [pc EXCEPT ![w] = "OptEmit"]
              /\ UNCHANGED aborted
  /\ UNCHANGED visualizer
  /\ UNCHANGED << shared, counters, method, instruction_set, isa_uses, graph, codegen,
                  canAllocate, predTrace, supportsRA, path, result, returned_artifacts, returned_optimized, performed, call_incs, report >>

\* CompileOptimized, the two tables, return new CompiledMethod(...)
OptEmit(w) ==
  /\ Running
  /\ pc[w] = "OptEmit"
  /\ LET tr == trace[w] \o OptimizedEmitStages
     IN /\ trace' = [trace EXCEPT ![w] = tr]
        /\ result' = [result EXCEPT ![w] = OptimizedArtifact(instruction_set[w], tr)]
  /\ dumps' = [dumps EXCEPT ![w] = DumpGraph(visualizer[w], @, <<"register">>)]
  /\ pc' = [pc EXCEPT ![w] = "Returned"]
  /\ returned_artifacts' = returned_artifacts + 1
  /\ returned_optimized' = returned_optimized + ReturnsOptimized(result'[w])
  /\ UNCHANGED << performed, call_incs, report >>
  /\ UNCHANGED visualizer
  /\ UNCHANGED << shared, counters, aborted, method, instruction_set, isa_uses, graph, codegen,
                  canAllocate, predTrace, supportsRA, path >>

\* CompileBaseline and, if CanOptimize, the coverage phases
BaselineEmit(w) ==
  /\ Running
  /\ pc[w] = "BaselineEmit"
  /\ trace' = [trace EXCEPT ![w] = @ \o BaselineStages(method[w].code_item)]
  /\ dumps' = [dumps EXCEPT ![w] =
                DumpGraph(visualizer[w], @,
                          IF CanOptimize(method[w].code_item)
                            THEN <<"ssa", "liveness">> ELSE << >>)]
  /\ pc' = [pc EXCEPT ![w] = "BaselineTables"]
  /\ UNCHANGED visualizer
  /\ UNCHANGED << shared, counters, aborted, method, instruction_set, isa_uses, graph, codegen,
                  canAllocate, predTrace, supportsRA, path, result, returned_artifacts, returned_optimized, performed, call_incs, report >>

\* the three tables, return new CompiledMethod(...)
BaselineTables(w) ==
  /\ Running
  /\ pc[w] = "BaselineTables"
  /\ LET tr == trace[w] \o BaselineTableStages
     IN /\ trace' = [trace EXCEPT ![w] = tr]
        /\ result' = [result EXCEPT ![w] = BaselineArtifact(instruction_set[w], tr)]
  /\ pc' = [pc EXCEPT ![w] = "Returned"]
  /\ returned_artifacts' = returned_artifacts + 1
  /\ returned_optimized' = returned_optimized + ReturnsOptimized(result'[w])
  /\ UNCHANGED << performed, call_incs, report >>
  /\ UNCHANGED << visualizer, dumps >>
  /\ UNCHANGED << shared, counters, aborted, method, instruction_set, isa_uses, graph, codegen,
                  canAllocate, predTrace, supportsRA, path >>

\* ~OptimizingCompiler(): runs once, when no Compile call is in progress.
Destroy ==
  /\ Running
  /\ \A w \in Workers : pc[w] \in {"Idle", "Returned"}
  /\ report' = Report(total_compiled_methods_, unoptimized_compiled_methods_,
                      optimized_compiled_methods_)
  /\ UNCHANGED << shared, counters, aborted, pc, locals, history >>

Next ==
  \/ Destroy
  \/ \E w \in Workers :
     \/ Enter(w)
     \/ CheckIsa(w)
     \/ CheckPathological(w)
     \/ BuildGraph(w)
     \/ CreateCodegen(w)
     \/ ChoosePath(w)
     \/ OptSsa(w)
     \/ OptRunOptimizations(w)
     \/ OptAllocate(w)
     \/ OptEmit(w)
     \/ BaselineEmit(w)
     \/ BaselineTables(w)

\* ================================================================= claims

Returned(w) == pc[w] = "Returned"
Aborted(w) == pc[w] = "Aborted"
Ended(w) == Returned(w) \/ Aborted(w)
Decided(w) == path[w] /= "none"

WellFormedOptimized(r) ==
  /\ r.layout = "optimized"
  /\ r.code = "built" /\ r.mapping_table = "built" /\ r.stack_map = "built"
  /\ r.vmap_table = "absent" /\ r.gc_map = "absent"

WellFormedBaseline(r) ==
  /\ r.layout = "baseline"
  /\ r.code = "built" /\ r.mapping_table = "built"
  /\ r.vmap_table = "built" /\ r.gc_map = "built"
  /\ r.stack_map = "absent"

OneOfThreeOutcomes(w) ==
  \/ result[w] = Nullptr /\ path[w] = "none"
  \/ WellFormedOptimized(result[w]) /\ path[w] = "optimized"
  \/ WellFormedBaseline(result[w]) /\ path[w] = "baseline"

TablesMatchPath(w) ==
  /\ Ran(trace[w], <<"codegen", "BuildStackMaps">>) => path[w] = "optimized"
  /\ Ran(trace[w], <<"codegen", "CompileOptimized">>) => path[w] = "optimized"
  /\ Ran(trace[w], <<"codegen", "BuildVMapTable">>) => path[w] = "baseline"
  /\ Ran(trace[w], <<"codegen", "BuildNativeGCMap">>) => path[w] = "baseline"
  /\ Ran(trace[w], <<"codegen", "CompileBaseline">>) => path[w] = "baseline"

\* C1 as stated: every Compile call that has ended, by a return or otherwise,
\* ended in the sentinel, a well-formed optimized artifact or a well-formed
\* baseline artifact, the layout matching the path taken.
C1_Original == \A w \in Workers : Ended(w) => OneOfThreeOutcomes(w) /\ TablesMatchPath(w)

\* C1 amended: every Compile call that returns, returns the sentinel, a
\* well-formed optimized artifact or a well-formed baseline artifact; the
\* layout matches the path taken, stack maps are built only on the optimized
\* path, vmap table and GC map only on the baseline path; a call that ends in
\* a fatal abort returns nothing.
C1_Amended ==
  \A w \in Workers :
    /\ Returned(w) => OneOfThreeOutcomes(w)
    /\ TablesMatchPath(w)
    /\ ~Returned(w) => result[w] = NoResult

C1_Witness ==
  \E u \in Workers, v \in Workers :
    /\ Returned(u) /\ WellFormedOptimized(result[u])
    /\ Returned(v) /\ WellFormedBaseline(result[v])

\* The three conditions of the optimized path, the predicate having been
\* evaluated on the graph as built.
OptimizedCondition(w) ==
  /\ run_optimizations_
  /\ method[w].code_item.tries_size_ = 0
  /\ canAllocate[w] = "true"
  /\ predTrace[w] = << >>

C3_Claim ==
  \A w \in Workers :
    method[w].code_item.tries_size_ >= 1 /\ Decided(w) =>
      /\ path[w] = "baseline"
      /\ Returned(w) => WellFormedBaseline(result[w])

\* C4 as stated: on an unsupported architecture Compile returns the sentinel
\* without building a graph or emitting code, and the three counters keep the
\* values they had before the call (zero, every call of the instance being on
\* that architecture).
C4_Claim ==
  ~IsInstructionSetSupported(SelectInstructionSet(driver_instruction_set)) =>
    /\ \A w \in Workers :
         /\ graph[w] = "none" /\ codegen[w] = "none" /\ trace[w] = << >>
         /\ Returned(w) => result[w] = Nullptr
    /\ total_compiled_methods_ = 0
    /\ unoptimized_compiled_methods_ = 0
    /\ optimized_compiled_methods_ = 0

\* C5 as stated: in every reachable state optimized + baseline = total, and
\* total is the number of compilations that returned an artifact.
C5_Claim ==
  /\ optimized_compiled_methods_ + unoptimized_compiled_methods_ = total_compiled_methods_
  /\ total_compiled_methods_ = returned_artifacts

\* C6 as stated: for every method, marked or not, a null graph from the
\* builder makes Compile return the sentinel and never leads to a fatal abort.
C6_Original ==
  \A w \in Workers :
    graph[w] = "null" => Returned(w) /\ result[w] = Nullptr

\* C6 amended: for a method whose name does not carry the "$opt$" marker a
\* null graph from the builder makes Compile return the sentinel; for a
\* method that carries the marker it fails the CHECK and aborts the process.
C6_Amended ==
  \A w \in Workers :
    graph[w] = "null" =>
      IF ShouldCompile(method[w].symbol)
        THEN /\ Aborted(w) /\ result[w] = NoResult
             /\ aborted = "Could not build graph in optimizing compiler"
        ELSE Returned(w) /\ result[w] = Nullptr

C6_Witness ==
  \E u \in Workers, v \in Workers :
    /\ graph[u] = "null" /\ Returned(u) /\ ~ShouldCompile(method[u].symbol)
    /\ graph[v] = "null" /\ Aborted(v) /\ ShouldCompile(method[v].symbol)

\* C7 as stated: the abort "could not allocate registers" is reached only for
\* a method tagged "must allocate registers" whose built graph the
\* allocability predicate rejected.
C7_Claim ==
  \A w \in Workers :
    path[w] = "fatal" =>
      /\ ShouldOptimize(method[w].symbol)
      /\ canAllocate[w] = "false"

\* C8 as stated: with the optimization policy disabled every call on an
\* eligible method returns a baseline-layout artifact and the optimized
\* counter stays zero.
C8_Claim ==
  ~run_optimizations_ =>
    /\ optimized_compiled_methods_ = 0
    /\ \A w \in Workers :
         Decided(w) => /\ path[w] = "baseline"
                       /\ Returned(w) => WellFormedBaseline(result[w])

\* C9: AllocateRegisters runs in a compilation only if the allocability
\* predicate was evaluated earlier in that compilation and returned true, and
\* the predicate is evaluated on the graph as built, before any stage has run
\* on it.
C9_AllocateOnlyAfterPredicate ==
  \A w \in Workers :
    /\ Ran(trace[w], <<"RegisterAllocator", "AllocateRegisters">>) =>
         canAllocate[w] = "true" /\ graph[w] = "built"
    /\ canAllocate[w] /= "unevaluated" => predTrace[w] = << >> /\ graph[w] = "built"

C9_Witness ==
  \E w \in Workers :
    /\ Ran(trace[w], <<"RegisterAllocator", "AllocateRegisters">>)
    /\ canAllocate[w] = "true"

\* C10: a compilation on the optimized path stays on it and ends only by
\* returning an optimized-layout artifact or by a fatal abort: it never
\* returns the sentinel or a baseline artifact and never runs a baseline stage.
C10_OptimizedPathEnds ==
  [][ \A w \in Workers :
        path[w] = "optimized" /\ ~Ended(w) =>
          /\ path'[w] = "optimized"
          /\ result'[w].layout \in {"none", "optimized"}
          /\ Returned(w)' => WellFormedOptimized(result'[w])
          /\ ~Ran(trace'[w], <<"codegen", "CompileBaseline">>)
          /\ aborted' /= "none" => result'[w] = NoResult ]_vars

C10_Witness ==
  \E u \in Workers, v \in Workers :
    /\ path[u] = "optimized" /\ Returned(u) /\ WellFormedOptimized(result[u])
    /\ path[v] = "optimized" /\ Aborted(v)


RejectedByArchitectureGate(w) ==
  /\ Returned(w) /\ result[w] = Nullptr
  /\ ~IsInstructionSetSupported(instruction_set[w])

\* C11 as stated: a request for kArm is never rejected as an unsupported
\* architecture; it is upgraded to kThumb2 and every later stage uses kThumb2.
C11_Original ==
  driver_instruction_set = "kArm" =>
    \A w \in Workers :
      /\ pc[w] /= "Idle" => instruction_set[w] = "kThumb2"
      /\ ~RejectedByArchitectureGate(w)

\* C11 amended: a request for kArm is upgraded to kThumb2 and every later
\* stage (code generator selection, allocability predicate, the artifact)
\* uses kThumb2; the request passes the architecture gate exactly when
\* kArm32QuickCodeUseSoftFloat is false, and is rejected as unsupported when
\* it is true.
C11_Amended ==
  driver_instruction_set = "kArm" =>
    \A w \in Workers :
      /\ pc[w] /= "Idle" => instruction_set[w] = "kThumb2"
      /\ \A u \in isa_uses[w] : u[2] = "kThumb2"
      /\ result[w].layout \in {"optimized", "baseline"} => result[w].instruction_set = "kThumb2"
      /\ pc[w] \notin {"Idle", "CheckIsa"} =>
           IF kArm32QuickCodeUseSoftFloat
             THEN RejectedByArchitectureGate(w) /\ isa_uses[w] = {}
             ELSE ~RejectedByArchitectureGate(w)

C11_Witness ==
  /\ driver_instruction_set = "kArm"
  /\ \E w \in Workers :
       /\ Returned(w) /\ result[w].layout = "optimized"
       /\ <<"RegisterAllocator::CanAllocateRegistersFor", "kThumb2">> \in isa_uses[w]
       /\ <<"CodeGenerator::Create", "kThumb2">> \in isa_uses[w]


IsPrefix(a, b) == Len(a) <= Len(b) /\ a = SubSeq(b, 1, Len(a))

\* The stages of the optimized path in the order C12 gives them.
C12_ExpectedStages ==
  << <<"graph", "BuildDominatorTree">>,
     <<"graph", "TransformToSSA">>,
     <<"graph", "FindNaturalLoops">>,
     <<"HDeadCodeElimination", "Run">>, <<"HDeadCodeElimination", "Check">>,
     <<"HConstantFolding", "Run">>, <<"HConstantFolding", "Check">>,
     <<"SsaRedundantPhiElimination", "Run">>, <<"SsaRedundantPhiElimination", "Check">>,
     <<"SsaDeadPhiElimination", "Run">>, <<"SsaDeadPhiElimination", "Check">>,
     <<"InstructionSimplifier", "Run">>, <<"InstructionSimplifier", "Check">>,
     <<"GlobalValueNumberer", "Run">>, <<"GlobalValueNumberer", "Check">>,
     <<"InstructionSimplifier", "Run">>, <<"InstructionSimplifier", "Check">>,
     <<"PrepareForRegisterAllocation", "Run">>,
     <<"SsaLivenessAnalysis", "Analyze">>,
     <<"RegisterAllocator", "AllocateRegisters">>,
     <<"codegen", "CompileOptimized">>,
     <<"codegen", "BuildMappingTable">>,
     <<"codegen", "BuildStackMaps">> >>

\* C12: on the optimized path the stages run once each in the fixed order
\* dominator tree, SSA, natural loops, the optimization sequence, prepare for
\* register allocation, liveness, register allocation, optimized emission,
\* mapping table, stack maps, and the artifact is assembled after the last of
\* them: at every moment the stages run so far are an initial part of that
\* list, and a call that returns has run the whole list.
C12_OptimizedStageOrder ==
  \A w \in Workers :
    path[w] = "optimized" =>
      /\ IsPrefix(trace[w], C12_ExpectedStages)
      /\ Returned(w) <=> trace[w] = C12_ExpectedStages
      /\ result[w] /= NoResult => trace[w] = C12_ExpectedStages

C12_Witness ==
  \E w \in Workers :
    /\ path[w] = "optimized" /\ Returned(w)
    /\ Ran(trace[w], <<"codegen", "BuildStackMaps">>)
    /\ Ran(trace[w], <<"graph", "BuildDominatorTree">>)


C13_PassNames ==
  { "HDeadCodeElimination", "HConstantFolding", "SsaRedundantPhiElimination",
    "SsaDeadPhiElimination", "InstructionSimplifier", "GlobalValueNumberer" }

C13_IsPassEvent(e) == e[1] \in C13_PassNames /\ e[2] \in {"Run", "Check"}

C13_PassEvents(tr) == SelectSeq(tr, C13_IsPassEvent)

\* The seven pass executions in the order C13 gives them, each Run followed
\* by the Check of the same pass.
C13_ExpectedPasses ==
  << <<"HDeadCodeElimination", "Run">>, <<"HDeadCodeElimination", "Check">>,
     <<"HConstantFolding", "Run">>, <<"HConstantFolding", "Check">>,
     <<"SsaRedundantPhiElimination", "Run">>, <<"SsaRedundantPhiElimination", "Check">>,
     <<"SsaDeadPhiElimination", "Run">>, <<"SsaDeadPhiElimination", "Check">>,
     <<"InstructionSimplifier", "Run">>, <<"InstructionSimplifier", "Check">>,
     <<"GlobalValueNumberer", "Run">>, <<"GlobalValueNumberer", "Check">>,
     <<"InstructionSimplifier", "Run">>, <<"InstructionSimplifier", "Check">> >>

\* C13: the optimization pipeline runs seven pass executions in the order
\* dead-code elimination, constant folding, redundant-phi elimination,
\* dead-phi elimination, instruction simplification, global value numbering,
\* instruction simplification; each Run is immediately followed by the Check
\* of the same pass, and once the pipeline is through no pass runs again.
C13_PipelineOrder ==
  \A w \in Workers :
    path[w] = "optimized" =>
      LET tr == trace[w]
          passes == C13_PassEvents(tr)
      IN /\ IsPrefix(passes, C13_ExpectedPasses)
         /\ \A i \in 1..Len(tr) :
              C13_IsPassEvent(tr[i]) /\ tr[i][2] = "Run" =>
                i < Len(tr) /\ tr[i + 1] = <<tr[i][1], "Check">>
         /\ Ran(tr, <<"PrepareForRegisterAllocation", "Run">>) =>
              /\ passes = C13_ExpectedPasses
              /\ Cardinality({i \in 1..Len(tr) :
                                C13_IsPassEvent(tr[i]) /\ tr[i][2] = "Run"}) = 7
         /\ aborted = "Check failed" /\ Aborted(w) =>
              /\ passes /= << >>
              /\ tr[Len(tr)] = passes[Len(passes)]
              /\ tr[Len(tr)][2] = "Check"

C13_Witness ==
  \E u \in Workers, v \in Workers :
    /\ path[u] = "optimized" /\ Returned(u)
    /\ C13_PassEvents(trace[u]) = C13_ExpectedPasses
    /\ path[v] = "optimized" /\ Aborted(v) /\ aborted = "Check failed"
    /\ Len(C13_PassEvents(trace[v])) = 6


\* The stages of a baseline compilation in which the side computation does
\* not run.
C14_WithoutSideComputation ==
  << <<"codegen", "CompileBaseline">>, <<"codegen", "BuildMappingTable">>,
     <<"codegen", "BuildVMapTable">>, <<"codegen", "BuildNativeGCMap">> >>

C15_Original ==
  \A w \in Workers :
    Returned(w) /\ result[w].layout = "optimized" =>
      /\ Ran(trace[w], <<"codegen", "BuildStackMaps">>)
      /\ Ran(trace[w], <<"codegen", "BuildMappingTable">>) => include_debug_symbols

\* C15 amended: every compilation that returns an optimized artifact has
\* built both the stack-map table and the mapping table, whether or not
\* debug-symbol inclusion is requested; the request only decides whether
\* BuildMappingTable is given a source map to fill, and the optimized artifact
\* does not carry that source map.
C15_Amended ==
  \A w \in Workers :
    Returned(w) /\ result[w].layout = "optimized" =>
      /\ Ran(trace[w], <<"codegen", "BuildStackMaps">>)
      /\ result[w].stack_map = "built"
      /\ Ran(trace[w], <<"codegen", "BuildMappingTable">>)
      /\ result[w].mapping_table = "built"
      /\ SrcMappingTable(trace[w]) = "built" <=> include_debug_symbols
      /\ result[w].src_mapping_table = "absent"

C15_Witness ==
  \E w \in Workers :
    /\ Returned(w) /\ result[w].layout = "optimized"
    /\ ~include_debug_symbols
    /\ result[w].mapping_table = "built"


C16_Positions(tr, stage) == {i \in 1..Len(tr) : tr[i] = stage}

C16_IsPassRun(e) == e[1] \in C13_PassNames /\ e[2] = "Run"

\* C16: in any single compilation, on the optimized path and in the coverage
\* phases of the baseline path alike, the dominator tree is built at most
\* once, before the SSA transformation of that compilation, and never after
\* an optimization pass has run.
C16_DominatorOnce ==
  \A w \in Workers :
    LET tr == trace[w]
        dom == C16_Positions(tr, <<"graph", "BuildDominatorTree">>)
        ssa == C16_Positions(tr, <<"graph", "TransformToSSA">>)
    IN /\ Cardinality(dom) <= 1
       /\ Cardinality(ssa) <= 1
       /\ \A j \in ssa : \E i \in dom : i < j
       /\ \A i \in dom : \A k \in 1..(i - 1) : ~C16_IsPassRun(tr[k])

C16_Witness ==
  \E u \in Workers, v \in Workers :
    /\ path[u] = "optimized" /\ Returned(u)
    /\ C16_Positions(trace[u], <<"graph", "BuildDominatorTree">>) = {1}
    /\ path[v] = "baseline" /\ Returned(v)
    /\ C16_Positions(trace[v], <<"graph", "BuildDominatorTree">>) = {2}


\* No call is in progress and the process has not aborted.
Quiescent == aborted = "none" /\ \A w \in Workers : pc[w] \in {"Idle", "Returned"}

\* C18: once all calls have returned, the optimized counter is the number of
\* calls that returned an optimized-layout artifact and the baseline counter
\* the number that returned a baseline-layout artifact; a call that returns an
\* artifact has incremented exactly once the path counter of the layout it
\* returns and not the other, and a call that returns the sentinel neither.
C18_PathCountersMatchLayouts ==
  /\ Quiescent =>
       /\ optimized_compiled_methods_ = returned_optimized
       /\ unoptimized_compiled_methods_ = returned_artifacts - returned_optimized
  /\ \A w \in Workers :
       Returned(w) =>
         /\ result[w].layout = "optimized" =>
              call_incs[w].optimized = 1 /\ call_incs[w].unoptimized = 0
         /\ result[w].layout = "baseline" =>
              call_incs[w].optimized = 0 /\ call_incs[w].unoptimized = 1
         /\ result[w] = Nullptr =>
              call_incs[w].optimized = 0 /\ call_incs[w].unoptimized = 0

C18_Witness ==
  /\ Quiescent
  /\ optimized_compiled_methods_ = 1 /\ unoptimized_compiled_methods_ = 1
  /\ \E u \in Workers, v \in Workers :
       result[u].layout = "optimized" /\ result[v].layout = "baseline"

\* C19: with several workers in Compile on one instance no counter update is
\* lost and no counter decreases: after every step, in every interleaving,
\* each counter is its initial value, zero, plus the number of increments the
\* calls have performed on it.
C19_NoLostUpdate ==
  [][ /\ total_compiled_methods_' = performed'.total
      /\ unoptimized_compiled_methods_' = performed'.unoptimized
      /\ optimized_compiled_methods_' = performed'.optimized
      /\ total_compiled_methods_' >= total_compiled_methods_
      /\ unoptimized_compiled_methods_' >= unoptimized_compiled_methods_
      /\ optimized_compiled_methods_' >= optimized_compiled_methods_ ]_vars

C19_Witness ==
  \E u \in Workers, v \in Workers :
    /\ u /= v
    /\ pc[u] = "OptSsa" /\ pc[v] = "OptSsa"
    /\ total_compiled_methods_ = 2 /\ optimized_compiled_methods_ = 2

\* C20: the shutdown report never divides by zero: with a zero total it takes
\* the "Did not compile any method" branch and computes no percentage, and it
\* computes percentages only with a non-zero total.
C20_NoDivisionByZero ==
  report /= NoReport =>
    /\ ~report.division_by_zero
    /\ total_compiled_methods_ = 0 <=> report.kind = "did_not_compile"
    /\ total_compiled_methods_ /= 0 <=> report.kind = "compiled"
    /\ report.kind = "compiled" =>
         /\ report.unoptimized_percent =
              (unoptimized_compiled_methods_ * 100) \div total_compiled_methods_
         /\ report.optimized_percent =
              (optimized_compiled_methods_ * 100) \div total_compiled_methods_

C20_Witness == report.kind = "did_not_compile" /\ total_compiled_methods_ = 0


\* What a call does as a function of the method, the policy, the debug option
\* and the answers of the collaborators, none of which is a visualizer setting.
C17_ExpectedPath(w) ==
  IF run_optimizations_ /\ method[w].code_item.tries_size_ = 0 /\ canAllocate[w] = "true"
    THEN "optimized"
  ELSE IF method[w].symbol.reg /\ supportsRA[w] = "true" THEN "fatal"
  ELSE "baseline"

C17_BaselineStagesWithCoverage ==
  << <<"codegen", "CompileBaseline">>,
     <<"graph", "BuildDominatorTree">>, <<"graph", "TransformToSSA">>,
     <<"graph", "FindNaturalLoops">>,
     <<"SsaRedundantPhiElimination", "Run">>, <<"SsaDeadPhiElimination", "Run">>,
     <<"GlobalValueNumberer", "Run">>, <<"SsaLivenessAnalysis", "Analyze">>,
     <<"codegen", "BuildMappingTable">>, <<"codegen", "BuildVMapTable">>,
     <<"codegen", "BuildNativeGCMap">> >>

C17_ExpectedStages(w) ==
  CASE path[w] = "optimized" -> C12_ExpectedStages
    [] path[w] = "baseline" ->
         IF method[w].code_item.tries_size_ = 0
           THEN C17_BaselineStagesWithCoverage ELSE C14_WithoutSideComputation
    [] OTHER -> << >>

C17_ExpectedResult(w) ==
  CASE path[w] = "optimized" ->
         [ layout |-> "optimized", instruction_set |-> instruction_set[w], code |-> "built",
           src_mapping_table |-> "absent", mapping_table |-> "built",
           stack_map |-> "built", vmap_table |-> "absent", gc_map |-> "absent" ]
    [] path[w] = "baseline" ->
         [ layout |-> "baseline", instruction_set |-> instruction_set[w], code |-> "built",
           src_mapping_table |-> IF include_debug_symbols THEN "built" ELSE "empty",
           mapping_table |-> "built",
           stack_map |-> "absent", vmap_table |-> "built", gc_map |-> "built" ]
    [] OTHER -> Nullptr

C17_ExpectedIncrements(w) ==
  [ total |-> 1,
    unoptimized |-> IF path[w] = "baseline" THEN 1 ELSE 0,
    optimized |-> IF path[w] = "optimized" THEN 1 ELSE 0 ]

\* C17: the visualizer has no effect on results: with the visualizer off, on,
\* filtered out for the method, or its stream failed, the path chosen, the
\* stages run, the value returned and the counter updates of a call are the
\* same function of the method, the configuration and the collaborators'
\* answers.
C17_VisualizerHasNoEffect ==
  \A w \in Workers :
    /\ Decided(w) => path[w] = C17_ExpectedPath(w)
    /\ pc[w] \notin {"Idle", "Returned", "Aborted"} => result[w] = NoResult
    /\ Returned(w) =>
         /\ trace[w] = C17_ExpectedStages(w)
         /\ result[w] = C17_ExpectedResult(w)
         /\ call_incs[w] = C17_ExpectedIncrements(w)

C17_Witness ==
  \E u \in Workers, v \in Workers :
    /\ visualizer_output_ = "open"
    /\ Returned(u) /\ result[u].layout = "optimized"
    /\ visualizer[u] = "enabled" /\ Len(dumps[u]) = 11
    /\ Returned(v) /\ result[v].layout = "optimized"
    /\ visualizer[v] = "disabled" /\ dumps[v] = << >>

\* the same with a stream that failed to open
C17_WitnessFailedStream ==
  \E u \in Workers :
    /\ visualizer_output_ = "failed"
    /\ Returned(u) /\ result[u].layout = "baseline"
    /\ visualizer[u] = "enabled" /\ dumps[u] = << >>


Spec == Init /\ [][Next]_vars

\* The same instance with the visualizer switched on or off and filtered.
SpecVisualizer == InitVisualizer /\ [][Next]_vars
====
